---- MODULE Spec2Model ----
(***************************************************************************)
(* Model of magnificent7_cash_secured_puts_roi_v6.py: the weekly           *)
(* expiration generator, the per-ticker option analysis (price filter,     *)
(* strike selection, premium, ROI, row assembly), the ticker loop and the  *)
(* final sort of the displayed table.                                      *)
(*                                                                         *)
(* Numbers.  Python floats are modelled by exact rationals (num/den) plus  *)
(* the not-a-number value; binary representation error is outside the      *)
(* model.  Market values are given in thousandths of a dollar.             *)
(* Dates.  A datetime is a count of clock ticks, TicksPerDay ticks to the  *)
(* calendar day, day 0 being a Monday; a "%Y-%m-%d" date string is         *)
(* modelled by the ordinal of its calendar day.  The clock is read once:    *)
(* a run is short against a tick, so every datetime.today() of the run     *)
(* returns the same reading.                                               *)
(* Strings produced by fmt are sequences of one-character strings.         *)
(***************************************************************************)
EXTENDS Integers, Sequences, FiniteSets, TLC

VARIABLES
    today,              \* datetime.today(): the clock reading, in ticks
    n,                  \* the count handed to get_weekly_expirations
    strategy,           \* "Cash Secured Put" or "Covered Call"
    moneyness_pct,      \* the selected moneyness percentage
    min_price,          \* minimum current price (float)
    max_price,          \* maximum current price (float)
    tickers_to_process, \* the list the ticker loop walks
    market,             \* what the market data gateway answers, per ticker
    pc,                 \* position in the script
    i,                  \* loop index of get_weekly_expirations
    expiration_list,    \* the dates generated so far
    t,                  \* index into tickers_to_process
    e,                  \* index into expiration_list inside analyze_options
    options_data,       \* rows of the ticker being analysed
    all_results,        \* rows of all tickers analysed so far
    df,                 \* the displayed (sorted) table
    chain_calls         \* the option_chain requests the gateway has received

vars == <<today, n, strategy, moneyness_pct, min_price, max_price,
          tickers_to_process, market, pc, i, expiration_list, t, e,
          options_data, all_results, df, chain_calls>>

inputs == <<today, n, strategy, moneyness_pct, min_price, max_price,
            tickers_to_process, market>>

-----------------------------------------------------------------------------
(* Bounds of the model *)

\* largest expiration count explored
MaxN == 3
\* clock ticks per calendar day (the time-of-day resolution)
TicksPerDay == 2

-----------------------------------------------------------------------------
(* Floats *)

NaN == [nan |-> TRUE, num |-> 0, den |-> 1]

RECURSIVE GCD(_, _)
GCD(a, b) == IF b = 0 THEN a ELSE GCD(b, a % b)

\* the number a/b (b > 0), in lowest terms
Rat(a, b) ==
    LET g == GCD(IF a < 0 THEN 0 - a ELSE a, b)
    IN  [nan |-> FALSE, num |-> a \div g, den |-> b \div g]

\* a dollar amount given in thousandths
Mills(x) == Rat(x, 1000)

Whole(x) == Rat(x, 1)

FAdd(a, b) ==
    IF a.nan \/ b.nan THEN NaN
    ELSE Rat(a.num * b.den + b.num * a.den, a.den * b.den)

FSub(a, b) ==
    IF a.nan \/ b.nan THEN NaN
    ELSE Rat(a.num * b.den - b.num * a.den, a.den * b.den)

FMul(a, b) ==
    IF a.nan \/ b.nan THEN NaN
    ELSE Rat(a.num * b.num, a.den * b.den)

\* b is a non-zero number wherever the program divides
FDiv(a, b) ==
    IF a.nan \/ b.nan THEN NaN
    ELSE IF b.num < 0 THEN Rat(0 - a.num * b.den, a.den * (0 - b.num))
    ELSE Rat(a.num * b.den, a.den * b.num)

\* comparisons with not-a-number are all false
FLt(a, b) == ~a.nan /\ ~b.nan /\ a.num * b.den < b.num * a.den

FLe(a, b) == ~a.nan /\ ~b.nan /\ a.num * b.den <= b.num * a.den

FEq(a, b) == ~a.nan /\ ~b.nan /\ a.num * b.den = b.num * a.den

\* Python truth value of a float: zero is false, not-a-number is true
Truthy(a) == a.nan \/ a.num # 0

\* nearest integer to a/b (b > 0), ties to the even neighbour
RoundHalfEven(a, b) ==
    LET q == a \div b
        r == a % b
    IN  IF 2 * r < b THEN q
        ELSE IF 2 * r > b THEN q + 1
        ELSE IF q % 2 = 0 THEN q ELSE q + 1

\* round(x, 2)
Round2(x) == IF x.nan THEN NaN ELSE Rat(RoundHalfEven(x.num * 100, x.den), 100)

-----------------------------------------------------------------------------
(* fmt: f"{x:.2f}" *)

DigitChar == <<"0", "1", "2", "3", "4", "5", "6", "7", "8", "9">>

RECURSIVE Digits(_)
Digits(k) ==
    IF k < 10 THEN <<DigitChar[k + 1]>>
    ELSE Digits(k \div 10) \o <<DigitChar[(k % 10) + 1]>>

\* every number the program formats is a float or an int, and non-negative
fmt(x) ==
    IF x.nan THEN <<"n", "a", "n">>
    ELSE LET c == RoundHalfEven(x.num * 100, x.den)
         IN  Digits(c \div 100) \o <<".">>
                \o <<DigitChar[((c \div 10) % 10) + 1], DigitChar[(c % 10) + 1]>>

-----------------------------------------------------------------------------
(* Dates *)

Weekday(dt) == (dt \div TicksPerDay) % 7

Timedelta(days) == days * TicksPerDay

\* strftime("%Y-%m-%d"): the calendar day, the time of day dropped
Strftime(dt) == dt \div TicksPerDay

\* strptime(s, "%Y-%m-%d"): midnight of the calendar day
Strptime(d) == d * TicksPerDay

\* (a - b).days: whole days of the difference, rounded towards minus infinity
DeltaDays(a, b) == (a - b) \div TicksPerDay

\* the i-th date of get_weekly_expirations, before formatting
FridayNoModulo(now, k) == now + Timedelta((4 - Weekday(now)) + k * 7)

Friday(now, k) == now + Timedelta(((4 - Weekday(now)) % 7) + k * 7)

-----------------------------------------------------------------------------
(* get_weekly_expirations *)

GenLoop ==
    /\ pc = "get_weekly_expirations"
    /\ i < n
    /\ expiration_list' = Append(expiration_list, Strftime(Friday(today, i)))
    /\ i' = i + 1
    /\ UNCHANGED <<inputs, pc, t, e, options_data, all_results, df, chain_calls>>

GenReturn ==
    /\ pc = "get_weekly_expirations"
    /\ i >= n
    /\ pc' = "ticker_loop"
    /\ UNCHANGED <<inputs, i, expiration_list, t, e, options_data, all_results,
                   df, chain_calls>>

-----------------------------------------------------------------------------
(* analyze_options: the computation for one expiration *)

IsPut == strategy = "Cash Secured Put"

\* round(current_price * (1 -/+ moneyness_pct / 100), 2)
TargetStrike(current_price, strat, m) ==
    IF strat = "Cash Secured Put"
    THEN Round2(FMul(current_price, FSub(Whole(1), FDiv(Whole(m), Whole(100)))))
    ELSE Round2(FMul(current_price, FAdd(Whole(1), FDiv(Whole(m), Whole(100)))))

\* opt_chain.puts or opt_chain.calls
Options(chain, strat) ==
    IF strat = "Cash Secured Put" THEN chain.puts ELSE chain.calls

EligibleIgnoringSide(q, target, strat) == FLe(q.strike, target)

\* the row mask options["strike"] <= target_strike (>= for calls)
Eligible(q, target, strat) ==
    IF strat = "Cash Secured Put" THEN FLe(q.strike, target)
    ELSE FLe(target, q.strike)

\* options[mask]: the eligible quotes, in the order the gateway gave them
OptionsFiltered(options, target, strat) ==
    SelectSeq(options, LAMBDA q : Eligible(q, target, strat))

\* options_filtered.iloc[-1] for puts, options_filtered.iloc[0] for calls
Selected(options_filtered, strat) ==
    IF strat = "Cash Secured Put"
    THEN options_filtered[Len(options_filtered)]
    ELSE options_filtered[1]

\* (bid + ask) / 2 if bid and ask else lastPrice
Premium(selected) ==
    IF Truthy(selected.bid) /\ Truthy(selected.ask)
    THEN FDiv(FAdd(selected.bid, selected.ask), Whole(2))
    ELSE selected.lastPrice

\* (datetime.strptime(expiration, "%Y-%m-%d") - datetime.today()).days
DaysToExp(expiration, now) == DeltaDays(Strptime(expiration), now)

\* premium / strike_price * 100
AbsRoi(premium, strike_price) == FMul(FDiv(premium, strike_price), Whole(100))

\* (abs_roi / days_to_exp) * 365 if days_to_exp > 0 else 0
AnnRoi(abs_roi, days_to_exp) ==
    IF days_to_exp > 0
    THEN FMul(FDiv(abs_roi, Whole(days_to_exp)), Whole(365))
    ELSE Whole(0)

\* The row dictionary.  The descriptive columns copied from stock.info carry
\* no computation and are left out; reading them raises when info_none.
Row(ticker, strat, current_price, selected, expiration, now) ==
    LET premium     == Premium(selected)
        days_to_exp == DaysToExp(expiration, now)
        abs_roi     == AbsRoi(premium, selected.strike)
        ann_roi     == AnnRoi(abs_roi, days_to_exp)
    IN  [Ticker        |-> ticker,
         Strategy      |-> strat,
         Current_Price |-> fmt(current_price),
         Strike_Price  |-> fmt(selected.strike),
         Premium       |-> fmt(premium),
         Days_to_Exp   |-> days_to_exp,
         Abs_ROI       |-> fmt(abs_roi),
         Ann_ROI       |-> fmt(ann_roi),
         Expiration    |-> expiration]

-----------------------------------------------------------------------------
(* df.sort_values(by="Ann ROI (%)", ascending=False) *)

\* code point of a character
Ord(ch) ==
    CASE ch = "." -> 46
      [] ch = "0" -> 48 [] ch = "1" -> 49 [] ch = "2" -> 50 [] ch = "3" -> 51
      [] ch = "4" -> 52 [] ch = "5" -> 53 [] ch = "6" -> 54 [] ch = "7" -> 55
      [] ch = "8" -> 56 [] ch = "9" -> 57
      [] ch = "a" -> 97 [] ch = "n" -> 110

\* Python's str < str: lexicographic by code point
RECURSIVE StrLt(_, _)
StrLt(a, b) ==
    IF b = <<>> THEN FALSE
    ELSE IF a = <<>> THEN TRUE
    ELSE IF Ord(Head(a)) # Ord(Head(b)) THEN Ord(Head(a)) < Ord(Head(b))
    ELSE StrLt(Tail(a), Tail(b))

\* The sort key: the column holds the strings fmt produced.
SortKeyLt(r1, r2) == StrLt(r1.Ann_ROI, r2.Ann_ROI)

\* r put after the rows whose key is not smaller
RECURSIVE InsertDescending(_, _)
InsertDescending(sorted, r) ==
    IF sorted = <<>> THEN <<r>>
    ELSE IF SortKeyLt(Head(sorted), r) THEN <<r>> \o sorted
    ELSE <<Head(sorted)>> \o InsertDescending(Tail(sorted), r)

\* Descending, equal keys in their original order: what pandas returns for
\* tables below numpy's 16-row insertion-sort threshold, which the bounds of
\* this model stay under (the default kind="quicksort" promises no stability
\* beyond it).
RECURSIVE SortValues(_)
SortValues(rows) ==
    IF rows = <<>> THEN <<>>
    ELSE InsertDescending(SortValues(SubSeq(rows, 1, Len(rows) - 1)),
                          rows[Len(rows)])

-----------------------------------------------------------------------------
(* analyze_options and the ticker loop *)

tkr == tickers_to_process[t]

stock == market[tkr]

expiration == expiration_list[e]

opt_chain == stock.chains[e]

target_strike == TargetStrike(stock.current_price, strategy, moneyness_pct)

options_filtered ==
    OptionsFiltered(Options(opt_chain, strategy), target_strike, strategy)

PriceFilteredExclusive(current_price) ==
    FLe(current_price, min_price) \/ FLe(max_price, current_price)

\* current_price < min_price or current_price > max_price
PriceFiltered(current_price) ==
    FLt(current_price, min_price) \/ FLt(max_price, current_price)

\* stock.info / stock.history raises: the outer handler returns []
AnalyzeFetchFails ==
    /\ pc = "ticker_loop"
    /\ t <= Len(tickers_to_process)
    /\ ~stock.fetch_ok
    /\ t' = t + 1
    /\ UNCHANGED <<inputs, pc, i, expiration_list, e, options_data, all_results,
                   df, chain_calls>>

\* the price filter returns []
AnalyzePriceFiltered ==
    /\ pc = "ticker_loop"
    /\ t <= Len(tickers_to_process)
    /\ stock.fetch_ok
    /\ PriceFiltered(stock.current_price)
    /\ t' = t + 1
    /\ UNCHANGED <<inputs, pc, i, expiration_list, e, options_data, all_results,
                   df, chain_calls>>

\* options_data = [] and the expiration loop is entered
AnalyzeEnter ==
    /\ pc = "ticker_loop"
    /\ t <= Len(tickers_to_process)
    /\ stock.fetch_ok
    /\ ~PriceFiltered(stock.current_price)
    /\ pc' = "expiration_loop"
    /\ e' = 1
    /\ options_data' = <<>>
    /\ UNCHANGED <<inputs, i, expiration_list, t, all_results, df, chain_calls>>

AfterExpirationErrorAbort ==
    [e |-> Len(expiration_list) + 1, options_data |-> <<>>]

\* except Exception: continue
AfterExpirationError == [e |-> e + 1, options_data |-> options_data]

\* stock.option_chain(expiration) raises
ExpirationChainFails ==
    /\ pc = "expiration_loop"
    /\ e <= Len(expiration_list)
    /\ ~opt_chain.ok
    /\ chain_calls' = chain_calls \cup {<<tkr, expiration>>}
    /\ e' = AfterExpirationError.e
    /\ options_data' = AfterExpirationError.options_data
    /\ UNCHANGED <<inputs, pc, i, expiration_list, t, all_results, df>>

\* options_filtered.empty: continue
ExpirationNoCandidate ==
    /\ pc = "expiration_loop"
    /\ e <= Len(expiration_list)
    /\ opt_chain.ok
    /\ options_filtered = <<>>
    /\ chain_calls' = chain_calls \cup {<<tkr, expiration>>}
    /\ e' = e + 1
    /\ UNCHANGED <<inputs, pc, i, expiration_list, t, options_data, all_results,
                   df>>

\* a fundamentals value used in arithmetic is None: building the row raises
ExpirationRowRaises ==
    /\ pc = "expiration_loop"
    /\ e <= Len(expiration_list)
    /\ opt_chain.ok
    /\ options_filtered # <<>>
    /\ stock.info_none
    /\ chain_calls' = chain_calls \cup {<<tkr, expiration>>}
    /\ e' = AfterExpirationError.e
    /\ options_data' = AfterExpirationError.options_data
    /\ UNCHANGED <<inputs, pc, i, expiration_list, t, all_results, df>>

\* options_data.append(row)
ExpirationAppend ==
    /\ pc = "expiration_loop"
    /\ e <= Len(expiration_list)
    /\ opt_chain.ok
    /\ options_filtered # <<>>
    /\ ~stock.info_none
    /\ chain_calls' = chain_calls \cup {<<tkr, expiration>>}
    /\ options_data' =
         Append(options_data,
                Row(tkr, strategy, stock.current_price,
                    Selected(options_filtered, strategy), expiration, today))
    /\ e' = e + 1
    /\ UNCHANGED <<inputs, pc, i, expiration_list, t, all_results, df>>

\* return options_data; all_results.extend(results)
AnalyzeReturn ==
    /\ pc = "expiration_loop"
    /\ e > Len(expiration_list)
    /\ all_results' = all_results \o options_data
    /\ options_data' = <<>>
    /\ t' = t + 1
    /\ pc' = "ticker_loop"
    /\ UNCHANGED <<inputs, i, expiration_list, e, df, chain_calls>>

\* if all_results: the table is sorted and shown
DisplayData ==
    /\ pc = "ticker_loop"
    /\ t > Len(tickers_to_process)
    /\ all_results # <<>>
    /\ df' = SortValues(all_results)
    /\ pc' = "displayed"
    /\ UNCHANGED <<inputs, i, expiration_list, t, e, options_data, all_results,
                   chain_calls>>

\* else: st.warning("No data found ...")
DisplayWarning ==
    /\ pc = "ticker_loop"
    /\ t > Len(tickers_to_process)
    /\ all_results = <<>>
    /\ pc' = "warned"
    /\ UNCHANGED <<inputs, i, expiration_list, t, e, options_data, all_results,
                   df, chain_calls>>

-----------------------------------------------------------------------------
(* The inputs explored *)

\* unique_stocks = sorted(set(all_stocks)), narrowed to two of the tickers
unique_stocks == <<"AAPL", "MSFT">>

Tickers == {unique_stocks[j] : j \in 1..Len(unique_stocks)}

\* tickers_to_process: unique_stocks for "ALL", else the one selected ticker
TickerSelections == {unique_stocks} \cup {<<tk>> : tk \in Tickers}

Strategies == {"Cash Secured Put", "Covered Call"}

\* the choices of the moneyness select box
MoneynessChoices == {1, 2, 3, 4, 5, 10, 15, 20, 30}

\* the defaults of the two price inputs
DefaultBounds == <<Mills(50000), Mills(500000)>>

\* bounds with prices at hand on them and on either side of them
TightBounds == <<Mills(100000), Mills(100010)>>

Prices == {Mills(99996), Mills(100000), Mills(100010), Mills(100014)}

Datetime(day, tod) == day * TicksPerDay + tod

Quote(strike, bid, ask, lastPrice) ==
    [strike |-> Mills(strike), bid |-> bid, ask |-> ask, lastPrice |-> lastPrice]

\* option_chain raised
ChainUnavailable == [ok |-> FALSE, puts |-> <<>>, calls |-> <<>>]

\* quotes in ascending strike order, some strikes off the cent grid
ChainAscending ==
    [ok |-> TRUE,
     puts |-> << Quote(90000, Mills(0), Mills(1200), Mills(1000)),
                 Quote(94996, Mills(2000), Mills(2200), Mills(2050)),
                 Quote(100000, Mills(4000), Mills(4200), Mills(4100)) >>,
     calls |-> << Quote(100000, Mills(4100), Mills(4300), Mills(4200)),
                  Quote(105014, Mills(1000), NaN, Mills(900)),
                  Quote(110000, Mills(300), Mills(0), Mills(250)) >>]

\* the same kind of quotes, not in ascending strike order
ChainUnordered ==
    [ok |-> TRUE,
     puts |-> << Quote(95000, NaN, Mills(2200), Mills(2100)),
                 Quote(90000, Mills(150), Mills(250), Mills(180)) >>,
     calls |-> << Quote(110000, Mills(100), Mills(140), Mills(110)),
                  Quote(105020, Mills(1000), Mills(1100), Mills(1040)) >>]

\* no strike 5% or more away from a price near 100
ChainAtTheMoney ==
    [ok |-> TRUE,
     puts |-> << Quote(100000, Mills(4000), Mills(4200), Mills(4100)) >>,
     calls |-> << Quote(100000, Mills(4100), Mills(4300), Mills(4200)) >>]

\* stock.info or stock.history raised
FetchFailed(k) ==
    [fetch_ok |-> FALSE, current_price |-> NaN, info_none |-> FALSE,
     chains |-> [j \in 1..k |-> ChainUnavailable]]

TickerData(PriceSet, InfoNones, ChainSet, k) ==
    [fetch_ok : {TRUE}, current_price : PriceSet, info_none : InfoNones,
     chains : [1..k -> ChainSet]]

InitProgram ==
    /\ pc = "get_weekly_expirations"
    /\ i = 0
    /\ expiration_list = <<>>
    /\ t = 1
    /\ e = 1
    /\ options_data = <<>>
    /\ all_results = <<>>
    /\ df = <<>>
    /\ chain_calls = {}

ListedTickers(list) == {list[j] : j \in 1..Len(list)}

\* failures of every kind, for each selection of tickers
InitFailures ==
    /\ today = Datetime(3, 0)
    /\ n \in 0..MaxN
    /\ strategy \in Strategies
    /\ moneyness_pct = 5
    /\ min_price = DefaultBounds[1]
    /\ max_price = DefaultBounds[2]
    /\ tickers_to_process \in TickerSelections
    /\ market \in [ListedTickers(tickers_to_process) ->
                    {FetchFailed(n)} \cup
                    TickerData({Mills(100000)}, BOOLEAN,
                               {ChainUnavailable, ChainAscending}, n)]

\* prices on, inside and outside the bounds; expirations without a candidate
InitPrices ==
    /\ today = Datetime(3, 0)
    /\ n \in 0..MaxN
    /\ strategy \in Strategies
    /\ moneyness_pct = 5
    /\ min_price = TightBounds[1]
    /\ max_price = TightBounds[2]
    /\ tickers_to_process = unique_stocks
    /\ market \in [ListedTickers(tickers_to_process) ->
                    TickerData(Prices, {FALSE},
                               {ChainAscending, ChainAtTheMoney}, n)]

\* one selected ticker: strategies, every moneyness choice, chain orders and
\* clock readings
InitSelection ==
    /\ today \in {Datetime(day, tod) : day \in {3, 4}, tod \in 0..(TicksPerDay - 1)}
    /\ n \in 0..MaxN
    /\ strategy \in Strategies
    /\ moneyness_pct \in MoneynessChoices
    /\ min_price = DefaultBounds[1]
    /\ max_price = DefaultBounds[2]
    /\ tickers_to_process = <<unique_stocks[1]>>
    /\ market \in [ListedTickers(tickers_to_process) ->
                    TickerData({Mills(100010)}, {FALSE},
                               {ChainAscending, ChainUnordered}, n)]

Init == InitProgram /\ (InitFailures \/ InitPrices \/ InitSelection)

Next ==
    \/ GenLoop
    \/ GenReturn
    \/ AnalyzeFetchFails
    \/ AnalyzePriceFiltered
    \/ AnalyzeEnter
    \/ ExpirationChainFails
    \/ ExpirationNoCandidate
    \/ ExpirationRowRaises
    \/ ExpirationAppend
    \/ AnalyzeReturn
    \/ DisplayData
    \/ DisplayWarning

Spec == Init /\ [][Next]_vars

\* get_weekly_expirations alone, for every weekday and time of day
InitExp ==
    /\ InitProgram
    /\ today \in 0..(7 * TicksPerDay - 1)
    /\ n \in 0..MaxN
    /\ strategy = "Cash Secured Put"
    /\ moneyness_pct = 5
    /\ min_price = DefaultBounds[1]
    /\ max_price = DefaultBounds[2]
    /\ tickers_to_process = <<>>
    /\ market = <<>>

NextExp == GenLoop \/ GenReturn

SpecExp == InitExp /\ [][NextExp]_vars

-----------------------------------------------------------------------------
(* Reading the state *)

Range(seq) == {seq[j] : j \in 1..Len(seq)}

\* every row the program holds
Rows == Range(all_results) \cup Range(options_data) \cup Range(df)

Finished == pc \in {"displayed", "warned"}

RECURSIVE DigitsValue(_)
DigitsValue(s) ==
    IF s = <<>> THEN 0
    ELSE DigitsValue(SubSeq(s, 1, Len(s) - 1)) * 10 + (Ord(s[Len(s)]) - Ord("0"))

\* the number a formatted column value denotes: float(s)
Num(s) ==
    IF s = <<"n", "a", "n">> THEN NaN
    ELSE Rat(DigitsValue(SelectSeq(s, LAMBDA ch : ch # ".")), 100)

\* where a row comes from
ExpIndex(r) ==
    CHOOSE k \in 1..Len(expiration_list) : expiration_list[k] = r.Expiration

PriceOf(r) == market[r.Ticker].current_price

SideOf(r) == Options(market[r.Ticker].chains[ExpIndex(r)], r.Strategy)

TargetOf(r) == TargetStrike(PriceOf(r), r.Strategy, moneyness_pct)

\* the quote the program took for the row
QuoteOf(r) == Selected(OptionsFiltered(SideOf(r), TargetOf(r), r.Strategy), r.Strategy)

\* a quote on the side of the target the strategy asks for
OnMoneySide(q, r) ==
    IF r.Strategy = "Cash Secured Put"
    THEN FLe(q.strike, TargetOf(r))
    ELSE FLe(TargetOf(r), q.strike)

-----------------------------------------------------------------------------
(* C1 *)

Position(r) == CHOOSE j \in 1..Len(all_results) : all_results[j] = r

\* C1: once the table is displayed it is the stable descending sort of the
\* concatenated rows by the number in the annualized-ROI column: no row has
\* a numerically smaller annualized ROI than the row after it, and rows with
\* equal annualized ROI stand in the order they were appended.
C1_RankedByNumericAnnRoi ==
    pc = "displayed" =>
        /\ Len(df) = Len(all_results)
        /\ Range(df) = Range(all_results)
        /\ \A k \in 1..(Len(df) - 1) :
              /\ ~FLt(Num(df[k].Ann_ROI), Num(df[k + 1].Ann_ROI))
              /\ FEq(Num(df[k].Ann_ROI), Num(df[k + 1].Ann_ROI))
                    => Position(df[k]) < Position(df[k + 1])

-----------------------------------------------------------------------------
(* C2 *)

\* the eligible quote nearest the target: highest strike for puts, lowest
\* for calls
Nearest(r) ==
    CHOOSE q \in {x \in Range(SideOf(r)) : OnMoneySide(x, r)} :
        \A x \in Range(SideOf(r)) :
            OnMoneySide(x, r) =>
                IF r.Strategy = "Cash Secured Put"
                THEN FLe(x.strike, q.strike)
                ELSE FLe(q.strike, x.strike)

\* C2: whatever the order of the quotes in the chain, the contract of every
\* row is the put with the highest strike at or below the target, or the
\* call with the lowest strike at or above it.
C2_SelectsNearestStrike ==
    \A r \in Rows : FEq(QuoteOf(r).strike, Nearest(r).strike)

-----------------------------------------------------------------------------
(* C3 *)

Indices(k) == [j \in 1..k |-> j]

\* the expirations of a ticker that come through: the chain was fetched,
\* holds an eligible quote, and the row could be built
Surviving(tk) ==
    SelectSeq(Indices(Len(expiration_list)),
              LAMBDA k :
                 /\ market[tk].chains[k].ok
                 /\ ~market[tk].info_none
                 /\ \E q \in Range(Options(market[tk].chains[k], strategy)) :
                       IF IsPut
                       THEN FLe(q.strike,
                                TargetStrike(market[tk].current_price, strategy,
                                             moneyness_pct))
                       ELSE FLe(TargetStrike(market[tk].current_price, strategy,
                                             moneyness_pct),
                                q.strike))

\* the rows of a run over exactly the given expirations of a ticker, none
\* of which fails
RowsOver(tk, ks) ==
    [j \in 1..Len(ks) |->
        Row(tk, strategy, market[tk].current_price,
            Selected(OptionsFiltered(Options(market[tk].chains[ks[j]], strategy),
                                     TargetStrike(market[tk].current_price,
                                                  strategy, moneyness_pct),
                                     strategy),
                     strategy),
            expiration_list[ks[j]], today)]

InRange(tk) ==
    /\ FLe(min_price, market[tk].current_price)
    /\ FLe(market[tk].current_price, max_price)

ExpectedRows(tk) ==
    IF market[tk].fetch_ok /\ InRange(tk)
    THEN RowsOver(tk, Surviving(tk))
    ELSE <<>>

RECURSIVE ExpectedUpTo(_)
ExpectedUpTo(j) ==
    IF j = 0 THEN <<>>
    ELSE ExpectedUpTo(j - 1) \o ExpectedRows(tickers_to_process[j])

\* C3: a failing expiration removes its own row and nothing else, a ticker
\* whose price or fundamentals cannot be fetched yields no rows, and the loop
\* reaches every ticker: between tickers the collected rows are exactly the
\* rows of the surviving expirations of the tickers handled so far, and the
\* run ends with every ticker handled.
C3_FailuresAreIsolated ==
    /\ pc = "ticker_loop" => all_results = ExpectedUpTo(t - 1)
    /\ Finished =>
          /\ t = Len(tickers_to_process) + 1
          /\ all_results = ExpectedUpTo(Len(tickers_to_process))

\* a displayed run of both tickers and three expirations in which the
\* middle expiration of the first ticker failed, its first and last produced
\* rows, and the second ticker could not be fetched
C3_Witness ==
    /\ pc = "displayed"
    /\ tickers_to_process = unique_stocks
    /\ Len(expiration_list) = 3
    /\ market["AAPL"].fetch_ok
    /\ ~market["AAPL"].chains[2].ok
    /\ ~market["MSFT"].fetch_ok
    /\ {r.Expiration : r \in Range(df)} = {expiration_list[1], expiration_list[3]}

-----------------------------------------------------------------------------
(* C4 *)

\* C4: the strike shown in every row lies on the side of the target strike
\* of the row's ticker that the strategy asks for (at or below it for puts,
\* at or above it for calls), and is the strike of a quote of the chain that
\* lies on that side.
C4_RowsMeetMoneyness ==
    \A r \in Rows :
        /\ IF r.Strategy = "Cash Secured Put"
           THEN FLe(Num(r.Strike_Price), TargetOf(r))
           ELSE FLe(TargetOf(r), Num(r.Strike_Price))
        /\ \E q \in Range(SideOf(r)) :
              OnMoneySide(q, r) /\ fmt(q.strike) = r.Strike_Price

\* a displayed covered-call row whose strike, off the cent grid in the
\* chain, shows as exactly the target strike
C4_Witness ==
    /\ pc = "displayed"
    /\ \E r \in Range(df) :
          /\ r.Strategy = "Covered Call"
          /\ FEq(Num(r.Strike_Price), TargetOf(r))
          /\ ~FEq(QuoteOf(r).strike, TargetOf(r))

-----------------------------------------------------------------------------
(* C5 *)

\* the tickers the loop has finished with
Handled == {tickers_to_process[j] : j \in 1..(t - 1)}

HasEligibleQuote(tk, k) ==
    /\ market[tk].chains[k].ok
    /\ \E q \in Range(Options(market[tk].chains[k], strategy)) :
          IF IsPut
          THEN FLe(q.strike,
                   TargetStrike(market[tk].current_price, strategy, moneyness_pct))
          ELSE FLe(TargetStrike(market[tk].current_price, strategy, moneyness_pct),
                   q.strike)

\* C5: a fetched ticker priced below min_price or above max_price has no
\* row and no option chain was requested for it; a ticker priced exactly at
\* min_price or at max_price, its fundamentals usable, has a row for every
\* expiration whose chain holds an eligible quote.
C5_PriceFilterInclusive ==
    /\ \A j \in 1..Len(tickers_to_process) :
          LET tk == tickers_to_process[j]
          IN  (/\ market[tk].fetch_ok
               /\ \/ FLt(market[tk].current_price, min_price)
                  \/ FLt(max_price, market[tk].current_price))
              => /\ \A r \in Rows : r.Ticker # tk
                 /\ \A c \in chain_calls : c[1] # tk
    /\ \A tk \in Handled :
          (/\ market[tk].fetch_ok
           /\ ~market[tk].info_none
           /\ \/ FEq(market[tk].current_price, min_price)
              \/ FEq(market[tk].current_price, max_price))
          => \A k \in 1..Len(expiration_list) :
                HasEligibleQuote(tk, k)
                => \E r \in Range(all_results) :
                      r.Ticker = tk /\ r.Expiration = expiration_list[k]

\* a finished run in which one ticker, priced at min_price, has a row, and
\* the other, priced above max_price, has none although its chains hold
\* eligible quotes
C5_Witness ==
    /\ Finished
    /\ tickers_to_process = unique_stocks
    /\ Len(expiration_list) >= 1
    /\ FEq(market["AAPL"].current_price, min_price)
    /\ \E r \in Range(all_results) : r.Ticker = "AAPL"
    /\ FLt(max_price, market["MSFT"].current_price)
    /\ HasEligibleQuote("MSFT", 1)
    /\ \A r \in Range(all_results) : r.Ticker # "MSFT"

-----------------------------------------------------------------------------
(* C6 *)

Present(x) == ~x.nan

\* C6: the premium of every row is (bid + ask) / 2 of its quote when bid and
\* ask are both present and non-zero, and the quote's lastPrice when either
\* is zero or absent (not a number).
C6_PremiumFallsBackToLastPrice ==
    \A r \in Rows :
        LET q == QuoteOf(r)
        IN  IF /\ Present(q.bid) /\ q.bid.num # 0
               /\ Present(q.ask) /\ q.ask.num # 0
            THEN r.Premium = fmt(FDiv(FAdd(q.bid, q.ask), Whole(2)))
            ELSE r.Premium = fmt(q.lastPrice)

-----------------------------------------------------------------------------
(* C7 *)

\* C7: in every row (with a premium that is a number) the absolute ROI is
\* premium / strike * 100 and the annualized ROI is absROI / daysToExp * 365
\* when daysToExp > 0 and 0 otherwise.
C7_RowHoldsRoiFormulas ==
    \A r \in Rows :
        LET q       == QuoteOf(r)
            premium == Premium(q)
            absROI  == FDiv(FMul(premium, Whole(100)), q.strike)
        IN  Present(premium) =>
               /\ FEq(Num(r.Abs_ROI), absROI)
               /\ IF r.Days_to_Exp > 0
                  THEN FEq(Num(r.Ann_ROI),
                           FDiv(FMul(absROI, Whole(365)), Whole(r.Days_to_Exp)))
                  ELSE FEq(Num(r.Ann_ROI), Whole(0))

-----------------------------------------------------------------------------
(* C8 *)

\* C8: the days to expiration of every row is the number of calendar days
\* from today's date to the expiration date, whatever the time of day.
C8_DaysAreCalendarDays ==
    \A r \in Rows : r.Days_to_Exp = r.Expiration - Strftime(today)

-----------------------------------------------------------------------------
(* C9 *)

\* C9: get_weekly_expirations(n) returns n dates; the k-th (from 0) is
\* today's date plus ((4 - weekday) mod 7) + 7k days; the first is the
\* earliest Friday on or after today, every date is a Friday, and the dates
\* ascend strictly.
C9_WeeklyFridays ==
    pc # "get_weekly_expirations" =>
        /\ Len(expiration_list) = n
        /\ \A k \in 1..Len(expiration_list) :
              /\ expiration_list[k] % 7 = 4
              /\ expiration_list[k] =
                    Strftime(today) + ((4 - (Strftime(today) % 7)) % 7) + 7 * (k - 1)
        /\ \A k \in 1..(Len(expiration_list) - 1) :
              expiration_list[k] < expiration_list[k + 1]
        /\ Len(expiration_list) >= 1 =>
              /\ expiration_list[1] >= Strftime(today)
              /\ \A d \in Strftime(today)..(expiration_list[1] - 1) : d % 7 # 4

\* the generator has returned several dates for a Saturday afternoon, the
\* first of them six days ahead
C9_Witness ==
    /\ pc = "ticker_loop"
    /\ Weekday(today) = 5
    /\ today % TicksPerDay > 0
    /\ Len(expiration_list) >= 2
    /\ expiration_list[1] = Strftime(today) + 6

-----------------------------------------------------------------------------
(* C10 *)

\* C10: the premium, absolute ROI and annualized ROI held in every row are
\* the values the computation produced, at full precision.
C10_RowsHoldFullPrecision ==
    \A r \in Rows :
        LET q       == QuoteOf(r)
            premium == Premium(q)
            abs_roi == AbsRoi(premium, q.strike)
            ann_roi == AnnRoi(abs_roi, DaysToExp(r.Expiration, today))
        IN  Present(premium) =>
               /\ FEq(Num(r.Premium), premium)
               /\ FEq(Num(r.Abs_ROI), abs_roi)
               /\ FEq(Num(r.Ann_ROI), ann_roi)

====
